---- MODULE Spec2Model ----
(***************************************************************************)
(* untappdtoirc: the poll / dedup / throttled-delivery loop of the bot.    *)
(*                                                                         *)
(* The model follows the latest revision held in src/main.go (lines 278 to *)
(* 656): JoinedHandler starts untappdLoop once, untappdLoop backfills each *)
(* roster user's history with getAllCheckins, enqueues the startup         *)
(* statistics, and then polls every user for ever, announcing through a    *)
(* channel of capacity 30 that pushMessage drains behind a 2 second        *)
(* ticker.                                                                 *)
(*                                                                         *)
(* Strings built by fmt.Sprintf are records holding the values formatted.  *)
(* Ratings are integers; a float64 quotient a/b is kept as the pair        *)
(* [num |-> a, den |-> b], so that 0/0 (NaN) stays visible.                *)
(***************************************************************************)
EXTENDS Integers, Sequences, FiniteSets, TLC

(***************************************************************************)
(* Bounds of the model.                                                    *)
(***************************************************************************)
\* check-ins of one user made after the process started
MaxNew == 1
\* check-ins of one user that exist upstream when the process starts
MaxHist == 2
\* longest list one listRecent call returns
MaxBatch == 2
\* consecutive failures of one upstream call
MaxFails == 3
\* deliveries of RPL_NAMREPLY
MaxJoins == 2
\* a startup history deeper than the api limit
DeepHist == 301
\* seconds of the timed runs
MaxTime == 7
\* check-ins of one user made while the process runs, in the burst runs
BurstEv == 4
\* longest history handed to the pure functions
MaxLen == 3

(***************************************************************************)
(* Program constants.                                                      *)
(***************************************************************************)
CheckinApiLimit == 300
nCheckins == 50
ChanCap == 30
MaxInt32 == 2147483647
BackoffMin == 60
BackoffMax == 1800
BackoffFactor == 2
ThrottleSeconds == 2

\* config.Users, the roster
Users == <<"peter", "paul">>

UserIndex(u) == CHOOSE i \in 1..Len(Users) : Users[i] = u

min(x, y) == IF x < y THEN x ELSE y

SeqToSet(s) == {s[i] : i \in 1..Len(s)}

(***************************************************************************)
(* untappd.Checkin.  The k-th check-in of user u: identifiers grow with k  *)
(* and are unique over all users; the creation time grows with k except    *)
(* that the third check-in is backdated before the second, so identifier   *)
(* order and creation order differ.                                        *)
(***************************************************************************)
CheckinID(u, k) == Len(Users) * (k - 1) + UserIndex(u)

CreatedAt(k) == IF k = 2 THEN 30 ELSE IF k = 3 THEN 20 ELSE 10 * k

MkCheckin(u, k) ==
    [ID         |-> CheckinID(u, k),
     UserName   |-> u,
     BeerID     |-> 1 + (k % 2),
     UserRating |-> 1 + ((k + UserIndex(u)) % 5),
     Created    |-> CreatedAt(k),
     Venue      |-> (k % 2 = 0)]

\* the first n check-ins of u
UserEvents(u, n) == {MkCheckin(u, k) : k \in 1..n}

AllEvents == UNION {UserEvents(Users[i], MaxHist + MaxNew) : i \in 1..Len(Users)}

(***************************************************************************)
(* Strings.                                                                *)
(***************************************************************************)
Line(kind, user, id, about, info) ==
    [kind |-> kind, user |-> user, id |-> id, about |-> about, info |-> info]

EmptyString == Line("", "", 0, "", <<>>)

\* a / b in float64, kept unevaluated; 0/0 is NaN
FloatDiv(a, b) == [num |-> a, den |-> b]

IsNaN(q) == q.den = 0 /\ q.num = 0

(***************************************************************************)
(* isCheckinNew: the scan of the user's history for the identifier.        *)
(***************************************************************************)
\* variant: the scan compares whole check-ins
RECURSIVE isCheckinNewByValue(_, _)
isCheckinNewByValue(checkin, checkins) ==
    IF checkins = <<>> THEN TRUE
    ELSE IF Head(checkins) = checkin THEN FALSE
    ELSE isCheckinNewByValue(checkin, Tail(checkins))

\* variant: only the last check-in of the history is looked at
isCheckinNewLastOnly(checkin, checkins) ==
    \/ checkins = <<>>
    \/ checkins[Len(checkins)].ID # checkin.ID

RECURSIVE isCheckinNew(_, _)
isCheckinNew(checkin, checkins) ==
    IF checkins = <<>> THEN TRUE
    ELSE IF Head(checkins).ID = checkin.ID THEN FALSE
    ELSE isCheckinNew(checkin, Tail(checkins))

(***************************************************************************)
(* formatCheckin: general, style, rating and venue; venue is the empty     *)
(* string when the check-in has none.                                      *)
(***************************************************************************)
formatCheckin(checkin) ==
    <<Line("general", checkin.UserName, checkin.ID, "", <<checkin.BeerID>>),
      Line("style", checkin.UserName, checkin.ID, "", <<checkin.BeerID>>),
      Line("rating", checkin.UserName, checkin.ID, "", <<checkin.UserRating>>),
      IF checkin.Venue
      THEN Line("venue", checkin.UserName, checkin.ID, "", <<>>)
      ELSE EmptyString>>

(***************************************************************************)
(* getStats: min, max, total/count, count and the matching check-in with   *)
(* the greatest identifier (NoCheckin for nil).                            *)
(***************************************************************************)
NoCheckin == [ID |-> 0, UserName |-> "", BeerID |-> 0, UserRating |-> 0,
              Created |-> 0, Venue |-> FALSE]

\* math.MaxFloat64: any number above every rating does
MaxFloat64 == 1000000

RECURSIVE getStatsLoop(_, _, _)
getStatsLoop(checkins, beerID, acc) ==
    IF checkins = <<>> THEN acc
    ELSE LET oldCheckin == Head(checkins)
             next == IF oldCheckin.BeerID = beerID
                     THEN [min   |-> IF oldCheckin.UserRating < acc.min
                                     THEN oldCheckin.UserRating ELSE acc.min,
                           max   |-> IF oldCheckin.UserRating > acc.max
                                     THEN oldCheckin.UserRating ELSE acc.max,
                           total |-> acc.total + oldCheckin.UserRating,
                           count |-> acc.count + 1,
                           lastCheckin |->
                               IF acc.lastCheckin = NoCheckin
                                  \/ oldCheckin.ID > acc.lastCheckin.ID
                               THEN oldCheckin ELSE acc.lastCheckin]
                     ELSE acc
         IN getStatsLoop(Tail(checkins), beerID, next)

\* variant: the most recent check-in is the last one of the item in the slice
getStatsLastInSlice(checkins, beerID) ==
    LET r == getStatsLoop(checkins, beerID,
                 [min |-> MaxFloat64, max |-> -MaxFloat64, total |-> 0,
                  count |-> 0, lastCheckin |-> NoCheckin])
        matching == {i \in 1..Len(checkins) : checkins[i].BeerID = beerID}
        last == CHOOSE i \in matching : \A j \in matching : j <= i
    IN [min |-> r.min, max |-> r.max, avg |-> FloatDiv(r.total, r.count),
        count |-> r.count,
        lastCheckin |-> IF matching = {} THEN NoCheckin ELSE checkins[last]]

getStats(checkins, beerID) ==
    LET r == getStatsLoop(checkins, beerID,
                 [min |-> MaxFloat64, max |-> -MaxFloat64, total |-> 0,
                  count |-> 0, lastCheckin |-> NoCheckin])
    IN [min |-> r.min, max |-> r.max, avg |-> FloatDiv(r.total, r.count),
        count |-> r.count, lastCheckin |-> r.lastCheckin]

(***************************************************************************)
(* getUserStats: count and mean of the ratings (the deviation is derived   *)
(* from the same two sums and is not kept).                                *)
(***************************************************************************)
\* the sum of the ratings; a rating is one of 1..5 here, and the sum is
\* taken rating by rating
SumRatings(checkins) ==
    LET times(r) ==
            Cardinality({i \in 1..Len(checkins) : checkins[i].UserRating = r})
    IN times(1) + 2 * times(2) + 3 * times(3) + 4 * times(4) + 5 * times(5)

getUserStats(checkins) ==
    [count |-> Len(checkins),
     mean  |-> FloatDiv(SumRatings(checkins), Len(checkins))]

(***************************************************************************)
(* sort.Sort(byCheckinTime(...)): ascending by Created.  Check-ins of one  *)
(* user with equal Created are the same check-in here, so the order of     *)
(* equal elements, which sort.Sort leaves open, does not show.             *)
(***************************************************************************)
byCheckinTimeLess(a, b) == a.Created < b.Created

\* variant: at equal or later creation time the check-in goes in front
\* (descending order)
RECURSIVE InsertByTimeDescending(_, _)
InsertByTimeDescending(c, s) ==
    IF s = <<>> THEN <<c>>
    ELSE IF byCheckinTimeLess(Head(s), c) THEN <<c>> \o s
    ELSE <<Head(s)>> \o InsertByTimeDescending(c, Tail(s))

RECURSIVE InsertByTime(_, _)
InsertByTime(c, s) ==
    IF s = <<>> THEN <<c>>
    ELSE IF byCheckinTimeLess(c, Head(s)) THEN <<c>> \o s
    ELSE <<Head(s)>> \o InsertByTime(c, Tail(s))

\* variant: the check-ins are left in the order they came in
SortNothing(s) == s

RECURSIVE SortByCheckinTime(_)
SortByCheckinTime(s) ==
    IF s = <<>> THEN <<>>
    ELSE InsertByTime(Head(s), SortByCheckinTime(Tail(s)))

(***************************************************************************)
(* sendCheckinToIrc: the lines it sends on the channel, in order.  `order` *)
(* is the order in which the range over the userCheckins map visits the    *)
(* users, which Go leaves open.                                            *)
(***************************************************************************)
\* variant: the owner of the check-in is not left out
RECURSIVE CrossUserLinesOwnerToo(_, _, _)
CrossUserLinesOwnerToo(checkin, ucs, order) ==
    IF order = <<>> THEN <<>>
    ELSE LET user == Head(order)
             st == getStats(ucs[user], checkin.BeerID)
             stats == IF st.count > 1
                      THEN <<st.min, st.max, st.avg, st.count>>
                      ELSE <<>>
             line == Line("cross", checkin.UserName, checkin.ID, user,
                          <<st.lastCheckin.ID, st.lastCheckin.UserRating, stats>>)
         IN (IF st.lastCheckin # NoCheckin THEN <<line>> ELSE <<>>)
            \o CrossUserLinesOwnerToo(checkin, ucs, Tail(order))

RECURSIVE CrossUserLines(_, _, _)
CrossUserLines(checkin, ucs, order) ==
    IF order = <<>> THEN <<>>
    ELSE LET user == Head(order)
             st == getStats(ucs[user], checkin.BeerID)
             stats == IF st.count > 1
                      THEN <<st.min, st.max, st.avg, st.count>>
                      ELSE <<>>
             line == Line("cross", checkin.UserName, checkin.ID, user,
                          <<st.lastCheckin.ID, st.lastCheckin.UserRating, stats>>)
         IN (IF user # checkin.UserName /\ st.lastCheckin # NoCheckin
             THEN <<line>> ELSE <<>>)
            \o CrossUserLines(checkin, ucs, Tail(order))

\* variant: the venue line is sent whether or not it is empty
sendCheckinToIrcAllFour(checkin, ucs, order) ==
    LET f == formatCheckin(checkin)
    IN <<f[1], f[2], f[3], f[4]>> \o CrossUserLines(checkin, ucs, order)

sendCheckinToIrc(checkin, ucs, order) ==
    LET f == formatCheckin(checkin)
    IN <<f[1], f[2], f[3]>>
       \o (IF f[4] # EmptyString THEN <<f[4]>> ELSE <<>>)
       \o CrossUserLines(checkin, ucs, order)

(***************************************************************************)
(* The startup statistics of untappdLoop: the header and one line per key  *)
(* of the userCheckins map, in the order the range visits them.            *)
(***************************************************************************)
StatsLines(ucs, order) ==
    <<Line("header", "", 0, "", <<CheckinApiLimit>>)>>
    \o [i \in 1..Len(order) |->
          LET st == getUserStats(ucs[order[i]])
          IN Line("stats", order[i], 0, "", <<st.count, st.mean>>)]

\* the orders in which a range over a map keyed by the roster can run
MapOrders ==
    {o \in [1..Len(Users) -> SeqToSet(Users)] :
        \A i, j \in 1..Len(Users) : i # j => o[i] # o[j]}

(***************************************************************************)
(* float64, as far as calculatePollInterval needs it: a finite positive    *)
(* float64 is m * 2^e with 2^52 <= m < 2^53.  m is kept in two limbs,      *)
(* hi * 2^26 + lo, so that no intermediate value leaves 32 bits.           *)
(***************************************************************************)
Limb == 2^26

\* bits of the quotient one step of the division yields
DigitBits == 4

\* steps that yield the 52 bits after the leading one
DigitSteps == (2 * 26) \div DigitBits

\* hi * 2^26 + lo with lo brought below 2^26
Big(hi, lo) == [hi |-> hi + lo \div Limb, lo |-> lo % Limb]

BigLess(a, b) == a.hi < b.hi \/ (a.hi = b.hi /\ a.lo < b.lo)

BigSub(a, b) ==
    IF a.lo >= b.lo
    THEN [hi |-> a.hi - b.hi, lo |-> a.lo - b.lo]
    ELSE [hi |-> a.hi - b.hi - 1, lo |-> a.lo + Limb - b.lo]

\* j * a for a small j
BigTimes(j, a) == Big(j * a.hi, j * a.lo)

\* float64(x) of an int x with 0 < x < 2^26: exact
Float64(x) ==
    LET j == CHOOSE i \in 1..26 : Limb <= x * 2^i /\ x * 2^i < 2 * Limb
    IN [m |-> [hi |-> x * 2^j, lo |-> 0], e |-> 0 - (26 + j)]

\* `steps` more digits of the quotient by B: st.q the digits so far, st.r
\* what is left to divide, less than B
RECURSIVE DivDigits(_, _, _)
DivDigits(st, B, steps) ==
    IF steps = 0 THEN st
    ELSE LET r == BigTimes(2^DigitBits, st.r)
             d == CHOOSE j \in 0..(2^DigitBits - 1) :
                     /\ ~BigLess(r, BigTimes(j, B))
                     /\ BigLess(r, BigTimes(j + 1, B))
         IN DivDigits([q |-> Big(2^DigitBits * st.q.hi, 2^DigitBits * st.q.lo + d),
                       r |-> BigSub(r, BigTimes(d, B))], B, steps - 1)

\* a / b of two positive float64: the quotient to 53 bits, rounded to the
\* nearest, a tie to the even mantissa
Float64Div(a, b) ==
    LET shift == IF BigLess(a.m, b.m) THEN 1 ELSE 0
        A == BigTimes(2^shift, a.m)
        d == DivDigits([q |-> Big(0, 1), r |-> BigSub(A, b.m)], b.m, DigitSteps)
        twice == BigTimes(2, d.r)
        up == \/ BigLess(b.m, twice)
              \/ twice = b.m /\ d.q.lo % 2 = 1
        q == IF up THEN Big(d.q.hi, d.q.lo + 1) ELSE d.q
        e == a.e - b.e - shift - 2 * 26
    IN IF q.hi = 2 * Limb THEN [m |-> Big(Limb, 0), e |-> e + 1]
       ELSE [m |-> q, e |-> e]

\* math.Ceil of a positive float64 whose exponent is not above 0: the bits
\* of m * 2^e at and above 2^0, and one more when a bit below is set
Ceil(x) ==
    LET s == 0 - x.e
        whole == IF s >= 2 * 26 + 2 THEN Big(0, 0)
                 ELSE IF s >= 26 THEN Big(0, x.m.hi \div 2^(s - 26))
                 ELSE Big(x.m.hi \div 2^s,
                          (x.m.hi % 2^s) * 2^(26 - s) + x.m.lo \div 2^s)
        below == IF s >= 2 * 26 + 2 THEN TRUE
                 ELSE IF s >= 26 THEN x.m.hi % 2^(s - 26) # 0 \/ x.m.lo # 0
                 ELSE x.m.lo % 2^s # 0
    IN [m |-> IF below THEN Big(whole.hi, whole.lo + 1) ELSE whole, e |-> 0]

\* int(x) of an integral float64 below 2^31
Float64ToInt(x) == x.m.hi * Limb + x.m.lo

(***************************************************************************)
(* calculatePollInterval.                                                  *)
(***************************************************************************)
\* variant: the quotient is cut off instead of rounded up
calculatePollIntervalFloor(numUsers) ==
    (60 * numUsers) \div 100

\* numCallsPerUser := float64(numApiCalls) / float64(numUsers)
\* return int(math.Ceil(60.0 / numCallsPerUser))
\* (for numUsers = 0 the quotient is +Inf, 60.0 / +Inf is 0)
calculatePollInterval(numUsers) ==
    IF numUsers = 0 THEN 0
    ELSE LET numApiCalls == 100
             numCallsPerUser == Float64Div(Float64(numApiCalls), Float64(numUsers))
         IN Float64ToInt(Ceil(Float64Div(Float64(60), numCallsPerUser)))

(***************************************************************************)
(* State.                                                                  *)
(***************************************************************************)
VARIABLES
    \* the upstream service (not part of the program)
    upstream,       \* user -> number of check-ins that exist at startup
    avail,          \* user -> number of check-ins a poll can return
    inclusive,      \* whether listBounded returns the check-in whose id is maxId
    \* the irc callbacks
    joins,          \* RPL_NAMREPLY messages delivered so far
    onceDone,       \* sync.Once
    loops,          \* untappdLoop goroutines started so far
    consumers,      \* pushMessage goroutines started so far
    \* untappdLoop
    pc,             \* where untappdLoop is
    uidx,           \* index in config.Users of the user being handled
    userCheckins,   \* user -> the history
    allCheckins,    \* getAllCheckins: the pages so far
    maxId,          \* getAllCheckins: the ceiling of the next page
    attempt,        \* the backoff's count of failures
    rest,           \* the part of checkins the range has not reached
    pending,        \* lines of the send in progress not yet on the channel
    \* the channel and pushMessage
    cs,             \* ircMessages
    cpc,            \* where pushMessage is
    message,        \* the line pushMessage holds
    tickBuf,        \* ticks waiting in the throttle channel (0 or 1)
    \* history variables
    backfilled,     \* user -> what getAllCheckins returned
    backfillEnd,    \* user -> why getAllCheckins returned
    polled,         \* user -> ids polls returned that the backfill had not
    pollMark,       \* the number of lines enqueued when the last poll returned
    again,          \* whether the last poll returned a backfilled check-in
    okAfter,        \* getAllCheckins: failures right before the last page that
                    \* came, -1 when none has come yet
    sinceOk,        \* getAllCheckins: failed requests since the last success
    lastReq,        \* the last page request: its limit and len(allCheckins)
    delays,         \* the retry delays since the last success
    enqueued,       \* every line put on the channel, in order
    sent,           \* every line handed to the transport, in order
    \* time, in seconds since the ticker was made
    now,
    lastSendAt,     \* time of the last transport send, -1 for none
    lastGap,        \* seconds between the last two sends, -1 for none
    \* a call of a pure function
    call,
    ret,
    \* the polling budget
    numUsers,       \* len(config.Users)
    pollInterval,   \* minutes slept between two cycles
    calls,          \* successful listRecent calls of the live polling so far
    minutes,        \* minutes slept between cycles so far
    \* the revisions that keep last-seen markers instead of histories
    lastCheckinTimes,   \* user -> Created of the last check-in seen
    batch,          \* checkins: what the poll at hand returned
    seen            \* user -> polls that returned, latest Created they held
                    \* (0 for none), and the same before the last of them

envVars == <<upstream, avail, inclusive>>
ircVars == <<joins, onceDone, loops, consumers>>
fetchVars == <<allCheckins, maxId, attempt, lastReq, delays, backfilled, backfillEnd,
              okAfter, sinceOk>>
pollVars == <<polled, pollMark, again>>
loopVars == <<pc, uidx, userCheckins, rest, pending>>
chanVars == <<cs, enqueued>>
consumerVars == <<cpc, message, tickBuf, sent, lastSendAt, lastGap>>
timeVars == <<now>>
pureVars == <<call, ret>>
budgetVars == <<numUsers, pollInterval, calls, minutes>>
markerVars == <<lastCheckinTimes, batch, seen>>

vars == <<envVars, ircVars, fetchVars, pollVars, loopVars, chanVars, consumerVars,
          timeVars, pureVars, budgetVars, markerVars>>

EmptyHistories == [u \in SeqToSet(Users) |-> <<>>]

NoReq == [limit |-> 0, have |-> 0]

ProgramInit ==
    /\ joins = 0 /\ onceDone = FALSE /\ loops = 0 /\ consumers = 0
    /\ pc = "idle" /\ uidx = 1
    /\ userCheckins = EmptyHistories
    /\ allCheckins = <<>> /\ maxId = MaxInt32 /\ attempt = 0
    /\ rest = <<>> /\ pending = <<>>
    /\ polled = [u \in SeqToSet(Users) |-> {}] /\ pollMark = 0 /\ again = FALSE
    /\ okAfter = -1 /\ sinceOk = 0
    /\ cs = <<>> /\ cpc = "off" /\ message = EmptyString /\ tickBuf = 0
    /\ backfilled = EmptyHistories
    /\ backfillEnd = [u \in SeqToSet(Users) |-> ""]
    /\ lastReq = NoReq /\ delays = <<>>
    /\ enqueued = <<>> /\ sent = <<>>
    /\ now = 0 /\ lastSendAt = -1 /\ lastGap = -1
    /\ numUsers = Len(Users) /\ pollInterval = 0 /\ calls = 0 /\ minutes = 0
    /\ lastCheckinTimes = <<>> /\ batch = <<>>
    /\ seen = [u \in SeqToSet(Users) |-> [polls |-> 0, latest |-> 0, earlier |-> 0]]

NoCall ==
    /\ call = <<>>
    /\ ret = <<>>

\* The process starts; each user has up to MaxHist check-ins upstream and
\* makes up to MaxNew more while it runs.  listBounded returns the check-ins
\* strictly below maxId.
Init ==
    /\ upstream \in [SeqToSet(Users) -> 0..MaxHist]
    /\ avail \in [SeqToSet(Users) -> 0..(MaxHist + MaxNew)]
    /\ \A u \in SeqToSet(Users) :
          upstream[u] <= avail[u] /\ avail[u] <= upstream[u] + MaxNew
    /\ inclusive = FALSE
    /\ ProgramInit
    /\ NoCall

(***************************************************************************)
(* The upstream service.                                                   *)
(***************************************************************************)
\* the number of check-ins of u, of all that can be, with identifier <= id
CountUpTo(u, id) ==
    IF id < UserIndex(u) THEN 0 ELSE (id - UserIndex(u)) \div Len(Users) + 1

\* CheckinsMinMaxIDLimit: the check-ins of u above minId and below maxId
\* (with maxId itself when `inclusive`), newest first, at most `limit`.
listBounded(u, minId, ceiling, limit) ==
    LET top == min(upstream[u],
                    CountUpTo(u, IF inclusive THEN ceiling ELSE ceiling - 1))
        low == CountUpTo(u, minId) + 1
    IN [i \in 1..min(limit, top - low + 1) |-> MkCheckin(u, top - i + 1)]

\* Checkins: any list of up to MaxBatch of the check-ins of u made so far, in
\* any order, repeats included.
RecentLists(u) ==
    UNION {[1..n -> UserEvents(u, avail[u])] : n \in 0..MaxBatch}

(***************************************************************************)
(* backoff.Backoff{Min: 60s, Max: 30m, Factor: 2, Jitter: true}.           *)
(* Duration() is Min * Factor^attempt, with jitter a random value between  *)
(* Min and that, never above Max; the model draws the two ends.  Seconds.  *)
(***************************************************************************)
Jitter == TRUE

RECURSIVE Pow(_, _)
Pow(b, e) == IF e = 0 THEN 1 ELSE b * Pow(b, e - 1)

BackoffCeiling(att) == min(BackoffMax, BackoffMin * Pow(BackoffFactor, att))

BackoffDurations(att) ==
    IF Jitter
    THEN {BackoffMin, BackoffCeiling(att)}
    ELSE {BackoffCeiling(att)}

\* d := b.Duration(); time.Sleep(d); continue
RetryAfterBackoff ==
    /\ attempt < MaxFails
    /\ \E d \in BackoffDurations(attempt) : delays' = Append(delays, d)
    /\ attempt' = attempt + 1

(***************************************************************************)
(* JoinedHandler and the start of untappdLoop.                             *)
(***************************************************************************)
\* go untappdLoop(s)
GoUntappdLoop ==
    /\ loops' = loops + 1
    /\ pc' = "start"

\* variant: no sync.Once around the go statement
JoinedHandlerNoOnce ==
    /\ joins < MaxJoins
    /\ joins' = joins + 1
    /\ onceDone' = TRUE
    /\ GoUntappdLoop
    /\ UNCHANGED <<envVars, consumers, fetchVars, pollVars, uidx, userCheckins,
                   rest, pending, chanVars, consumerVars, timeVars, pureVars,
                   budgetVars, markerVars>>

JoinedHandler ==
    /\ joins < MaxJoins
    /\ joins' = joins + 1
    /\ IF onceDone
       THEN UNCHANGED <<onceDone, loops, pc>>
       ELSE onceDone' = TRUE /\ GoUntappdLoop
    /\ UNCHANGED <<envVars, consumers, fetchVars, pollVars, uidx, userCheckins,
                   rest, pending, chanVars, consumerVars, timeVars, pureVars,
                   budgetVars, markerVars>>

\* untappdLoop up to its first upstream call: the channel is made and
\* pushMessage started, which makes the ticker.
untappdLoopStart ==
    /\ pc = "start"
    /\ pc' = "backfill"
    /\ uidx' = 1
    /\ userCheckins' = EmptyHistories
    /\ allCheckins' = <<>> /\ maxId' = MaxInt32 /\ attempt' = 0
    /\ cs' = <<>>
    /\ consumers' = consumers + 1
    /\ cpc' = "recv"
    /\ UNCHANGED <<envVars, joins, onceDone, loops, lastReq, delays, backfilled,
                   backfillEnd, okAfter, sinceOk, pollVars, rest, pending, enqueued, message,
                   tickBuf, sent, lastSendAt, lastGap, timeVars, pureVars,
                   budgetVars, markerVars>>

(***************************************************************************)
(* getAllCheckins, called for each roster user in turn.                    *)
(***************************************************************************)
\* variant: every page asks for nCheckins
PageLimitFixed(have) == nCheckins

\* limit := min(CheckinApiLimit-len(allCheckins), nCheckins)
PageLimit(have) == min(CheckinApiLimit - have, nCheckins)

\* variant: after the last backfill the polling starts at once, without the
\* statistics
getAllCheckinsReturnNoStats(all, why) ==
    LET u == Users[uidx]
        ucs == [userCheckins EXCEPT ![u] = all]
    IN /\ userCheckins' = ucs
       /\ backfilled' = [backfilled EXCEPT ![u] = all]
       /\ backfillEnd' = [backfillEnd EXCEPT ![u] = why]
       /\ allCheckins' = <<>>
       /\ maxId' = MaxInt32
       /\ okAfter' = -1
       /\ sinceOk' = 0
       /\ IF uidx < Len(Users)
          THEN /\ uidx' = uidx + 1
               /\ pc' = "backfill"
               /\ pending' = <<>>
          ELSE /\ uidx' = 1
               /\ pc' = "poll"
               /\ pending' = <<>>

\* getAllCheckins returns `all` for the user at uidx: the next user's backfill
\* starts, or after the last user the statistics lines are about to be sent.
getAllCheckinsReturn(all, why) ==
    LET u == Users[uidx]
        ucs == [userCheckins EXCEPT ![u] = all]
    IN /\ userCheckins' = ucs
       /\ backfilled' = [backfilled EXCEPT ![u] = all]
       /\ backfillEnd' = [backfillEnd EXCEPT ![u] = why]
       /\ allCheckins' = <<>>
       /\ maxId' = MaxInt32
       /\ okAfter' = -1
       /\ sinceOk' = 0
       /\ IF uidx < Len(Users)
          THEN /\ uidx' = uidx + 1
               /\ pc' = "backfill"
               /\ pending' = <<>>
          ELSE /\ uidx' = 1
               /\ pc' = "stats"
               /\ \E order \in MapOrders : pending' = StatsLines(ucs, order)

\* variant: a failed page request ends the backfill with the pages so far
getAllCheckinsGiveUp ==
    /\ pc = "backfill"
    /\ lastReq' = [limit |-> PageLimit(Len(allCheckins)), have |-> Len(allCheckins)]
    /\ attempt' = 0
    /\ delays' = <<>>
    /\ getAllCheckinsReturn(allCheckins, "error")
    /\ UNCHANGED <<envVars, ircVars, pollVars, rest, chanVars, consumerVars,
                   timeVars, pureVars,
                   budgetVars, markerVars>>

\* the page request fails
getAllCheckinsFail ==
    /\ pc = "backfill"
    /\ lastReq' = [limit |-> PageLimit(Len(allCheckins)), have |-> Len(allCheckins)]
    /\ RetryAfterBackoff
    /\ sinceOk' = sinceOk + 1
    /\ UNCHANGED <<envVars, ircVars, allCheckins, maxId, backfilled, backfillEnd,
                   okAfter, pollVars, loopVars, chanVars, consumerVars, timeVars, pureVars,
                   budgetVars, markerVars>>

\* variant: a page that comes leaves the backoff as it is (no b.Reset())
getAllCheckinsPageNoReset ==
    /\ pc = "backfill"
    /\ \E limit \in {PageLimit(Len(allCheckins))} :
       \E page \in {listBounded(Users[uidx], 0, maxId, limit)} :
       \E all \in {allCheckins \o page} :
          /\ lastReq' = [limit |-> limit, have |-> Len(allCheckins)]
          /\ UNCHANGED <<attempt, delays>>
          /\ IF Len(page) = 0
             THEN getAllCheckinsReturn(allCheckins, "empty")
             ELSE IF Len(all) >= CheckinApiLimit
             THEN getAllCheckinsReturn(all, "limit")
             ELSE /\ allCheckins' = all
                  /\ maxId' = page[Len(page)].ID
                  /\ okAfter' = sinceOk
                  /\ sinceOk' = 0
                  /\ UNCHANGED <<pc, uidx, userCheckins, pending, backfilled,
                                 backfillEnd>>
    /\ UNCHANGED <<envVars, ircVars, pollVars, rest, chanVars, consumerVars,
                   timeVars, pureVars,
                   budgetVars, markerVars>>

\* the page request succeeds (page and all are bound by \E, each to its one
\* value, so that they are worked out once)
getAllCheckinsPage ==
    /\ pc = "backfill"
    /\ \E limit \in {PageLimit(Len(allCheckins))} :
       \E page \in {listBounded(Users[uidx], 0, maxId, limit)} :
       \E all \in {allCheckins \o page} :
          /\ lastReq' = [limit |-> limit, have |-> Len(allCheckins)]
          /\ attempt' = 0
          /\ delays' = <<>>
          /\ IF Len(page) = 0
             THEN getAllCheckinsReturn(allCheckins, "empty")
             ELSE IF Len(all) >= CheckinApiLimit
             THEN getAllCheckinsReturn(all, "limit")
             ELSE /\ allCheckins' = all
                  /\ maxId' = page[Len(page)].ID
                  /\ okAfter' = sinceOk
                  /\ sinceOk' = 0
                  /\ UNCHANGED <<pc, uidx, userCheckins, pending, backfilled,
                                 backfillEnd>>
    /\ UNCHANGED <<envVars, ircVars, pollVars, rest, chanVars, consumerVars,
                   timeVars, pureVars,
                   budgetVars, markerVars>>

(***************************************************************************)
(* The polling loop of untappdLoop.                                        *)
(***************************************************************************)
\* variant: every polled check-in is taken as new
SkipNothing(r, history) == r

RECURSIVE SkipOld(_, _)
SkipOld(r, history) ==
    IF r = <<>> THEN <<>>
    ELSE IF isCheckinNew(Head(r), history) THEN r
    ELSE SkipOld(Tail(r), history)

\* for _, c := range checkins, from the check-ins `r` not yet visited up to
\* the next send on the channel or, when no new check-in is left, through the
\* sort of the history to the next user or the sleep.
RangeCheckins(r, order) ==
    LET u == Users[uidx]
        r2 == SkipOld(r, userCheckins[u])
    IN IF r2 = <<>>
       THEN /\ userCheckins' =
                  [userCheckins EXCEPT ![u] = SortByCheckinTime(userCheckins[u])]
            /\ rest' = <<>>
            /\ pending' = <<>>
            /\ IF uidx < Len(Users)
               THEN uidx' = uidx + 1 /\ pc' = "poll"
               ELSE uidx' = 1 /\ pc' = "sleep"
       ELSE LET c == Head(r2)
                ucs == [userCheckins EXCEPT ![u] = Append(userCheckins[u], c)]
            IN /\ userCheckins' = ucs
               /\ pending' = sendCheckinToIrc(c, ucs, order)
               /\ rest' = Tail(r2)
               /\ pc' = "send"
               /\ uidx' = uidx

\* variant: a failed poll is given up and the loop goes on to the next user
getCheckinsGiveUp ==
    /\ pc = "poll"
    /\ RetryAfterBackoff
    /\ IF uidx < Len(Users)
       THEN uidx' = uidx + 1 /\ pc' = "poll"
       ELSE uidx' = 1 /\ pc' = "sleep"
    /\ UNCHANGED <<envVars, ircVars, allCheckins, maxId, lastReq, backfilled,
                   backfillEnd, okAfter, sinceOk, pollVars, userCheckins, rest, pending, chanVars,
                   consumerVars, timeVars, pureVars,
                   budgetVars, markerVars>>

\* variant: a failed poll ends the process (log.Fatal)
getCheckinsFatal ==
    /\ pc = "poll"
    /\ pc' = "exit"
    /\ UNCHANGED <<envVars, ircVars, fetchVars, pollVars, uidx, userCheckins,
                   rest, pending, chanVars, consumerVars, timeVars, pureVars,
                   budgetVars, markerVars>>

\* getCheckins: the call fails
getCheckinsFail ==
    /\ pc = "poll"
    /\ RetryAfterBackoff
    /\ UNCHANGED <<envVars, ircVars, allCheckins, maxId, lastReq, backfilled,
                   backfillEnd, okAfter, sinceOk, pollVars, loopVars, chanVars, consumerVars,
                   timeVars, pureVars,
                   budgetVars, markerVars>>

IDs(list) == {list[i].ID : i \in 1..Len(list)}

\* getCheckins returns `list`; it is sorted and ranged over
PollUser(list) ==
    /\ pc = "poll"
    /\ attempt' = 0
    /\ delays' = <<>>
    /\ polled' = [polled EXCEPT ![Users[uidx]] =
                     @ \cup (IDs(list) \ IDs(backfilled[Users[uidx]]))]
    /\ pollMark' = Len(enqueued)
    /\ again' = (IDs(list) \cap IDs(backfilled[Users[uidx]]) # {})
    /\ \E order \in MapOrders : RangeCheckins(SortByCheckinTime(list), order)
    /\ UNCHANGED <<envVars, ircVars, allCheckins, maxId, lastReq, backfilled,
                   backfillEnd, okAfter, sinceOk, chanVars, consumerVars, timeVars, pureVars,
                   budgetVars, markerVars>>

getCheckinsOk ==
    \E list \in RecentLists(Users[uidx]) : PollUser(list)

\* time.Sleep(pollInterval)
Sleep ==
    /\ pc = "sleep"
    /\ pc' = "poll"
    /\ UNCHANGED <<envVars, ircVars, fetchVars, pollVars, uidx, userCheckins,
                   rest, pending, chanVars, consumerVars, timeVars, pureVars,
                   budgetVars, markerVars>>

(***************************************************************************)
(* The channel.                                                            *)
(***************************************************************************)
\* variant: a send on a full channel drops the line instead of blocking
ChanSendOrDrop(line) ==
    IF Len(cs) < ChanCap
    THEN cs' = Append(cs, line) /\ enqueued' = Append(enqueued, line)
    ELSE UNCHANGED <<cs, enqueued>>

\* variant: the line goes to the front of the channel
ChanSendFront(line) ==
    /\ Len(cs) < ChanCap
    /\ cs' = <<line>> \o cs
    /\ enqueued' = Append(enqueued, line)

\* cs <- line: blocks while the channel holds ChanCap lines
ChanSend(line) ==
    /\ Len(cs) < ChanCap
    /\ cs' = Append(cs, line)
    /\ enqueued' = Append(enqueued, line)

\* variant: the receive takes the newest line
ChanRecvNewest ==
    /\ cs # <<>>
    /\ message' = cs[Len(cs)]
    /\ cs' = SubSeq(cs, 1, Len(cs) - 1)

\* <-cs: blocks while the channel is empty
ChanRecv ==
    /\ cs # <<>>
    /\ message' = Head(cs)
    /\ cs' = Tail(cs)

\* untappdLoop sends the next line of the statistics or of sendCheckinToIrc
Enqueue ==
    /\ pc \in {"stats", "send"}
    /\ pending # <<>>
    /\ ChanSend(Head(pending))
    /\ IF Tail(pending) # <<>>
       THEN /\ pending' = Tail(pending)
            /\ UNCHANGED <<pc, uidx, userCheckins, rest>>
       ELSE IF pc = "stats"
       THEN /\ pending' = <<>>
            /\ pc' = "poll"
            /\ UNCHANGED <<uidx, userCheckins, rest>>
       ELSE \E order \in MapOrders : RangeCheckins(rest, order)
    /\ UNCHANGED <<envVars, ircVars, fetchVars, pollVars, consumerVars,
                   timeVars, pureVars,
                   budgetVars, markerVars>>

(***************************************************************************)
(* pushMessage.                                                            *)
(***************************************************************************)
\* message := <-cs
pushMessageRecv ==
    /\ cpc = "recv"
    /\ ChanRecv
    /\ cpc' = "throttle"
    /\ UNCHANGED <<envVars, ircVars, fetchVars, pollVars, loopVars, enqueued,
                   tickBuf, sent, lastSendAt, lastGap, timeVars, pureVars,
                   budgetVars, markerVars>>

\* <-throttle; s.Send(message): the tick is taken and the line handed to the
\* transport.  When the tick comes is left to the timed actions below.
pushMessageSend ==
    /\ cpc = "throttle"
    /\ tickBuf' = 0
    /\ sent' = Append(sent, message)
    /\ lastGap' = IF lastSendAt = -1 THEN -1 ELSE now - lastSendAt
    /\ lastSendAt' = now
    /\ message' = EmptyString
    /\ cpc' = "recv"
    /\ UNCHANGED <<envVars, ircVars, fetchVars, pollVars, loopVars, chanVars,
                   timeVars, pureVars,
                   budgetVars, markerVars>>

Next ==
    \/ JoinedHandler
    \/ untappdLoopStart
    \/ getAllCheckinsFail
    \/ getAllCheckinsPage
    \/ Enqueue
    \/ getCheckinsFail
    \/ getCheckinsOk
    \/ Sleep
    \/ pushMessageRecv
    \/ pushMessageSend

Spec == Init /\ [][Next]_vars

(***************************************************************************)
(* The startup alone, over shallow and deep upstream histories and both    *)
(* readings of maxId: the check-in whose id is maxId left out of the page  *)
(* or returned in it (then with a history for the first user only).        *)
(***************************************************************************)
InitStartup ==
    /\ upstream \in [SeqToSet(Users) -> (0..MaxHist) \cup {DeepHist}]
    /\ avail = upstream
    /\ inclusive \in BOOLEAN
    /\ inclusive => \A i \in 2..Len(Users) : upstream[Users[i]] = 0
    /\ ProgramInit
    /\ NoCall

NextStartup ==
    \/ JoinedHandler
    \/ untappdLoopStart
    \/ getAllCheckinsFail
    \/ getAllCheckinsPage

SpecStartup == InitStartup /\ [][NextStartup]_vars

\* The upstream answers in the end, and a started goroutine runs.
FairStartup ==
    /\ SpecStartup
    /\ WF_vars(untappdLoopStart)
    /\ WF_vars(getAllCheckinsPage)

(***************************************************************************)
(* A burst: nothing upstream at startup, BurstEv check-ins of each user    *)
(* user made by the time of the first poll, and a poll returns the         *)
(* check-ins made so far, newest first.  No call fails.                    *)
(***************************************************************************)
LatestList(u) == [i \in 1..avail[u] |-> MkCheckin(u, avail[u] - i + 1)]

getCheckinsLatest == PollUser(LatestList(Users[uidx]))

InitBurst ==
    /\ upstream = [u \in SeqToSet(Users) |-> 0]
    /\ avail = [u \in SeqToSet(Users) |-> BurstEv]
    /\ inclusive = FALSE
    /\ ProgramInit
    /\ NoCall

NextBurst ==
    \/ JoinedHandler
    \/ untappdLoopStart
    \/ getAllCheckinsPage
    \/ Enqueue
    \/ getCheckinsLatest
    \/ Sleep
    \/ pushMessageRecv
    \/ pushMessageSend

SpecBurst == InitBurst /\ [][NextBurst]_vars

\* A started goroutine runs, and the ticker keeps ticking.
FairBurst ==
    /\ SpecBurst
    /\ WF_vars(pushMessageRecv)
    /\ WF_vars(pushMessageSend)

(***************************************************************************)
(* pushMessage against the clock.  Time is counted in seconds from the     *)
(* moment time.Tick made the ticker; the ticker fires every                *)
(* ThrottleSeconds and keeps one tick for a receiver that is late, further *)
(* ticks being dropped.  pushMessage takes a line or a tick the moment it  *)
(* can.  Lines arrive on the channel at any time.                          *)
(***************************************************************************)
\* a second passes
Advance ==
    /\ now < MaxTime
    /\ ~(cpc = "recv" /\ cs # <<>>)
    /\ ~(cpc = "throttle" /\ tickBuf = 1)
    /\ now' = now + 1
    /\ tickBuf' = IF (now + 1) % ThrottleSeconds = 0 THEN 1 ELSE tickBuf
    /\ UNCHANGED <<envVars, ircVars, fetchVars, pollVars, loopVars, chanVars,
                   cpc, message, sent, lastSendAt, lastGap, pureVars,
                   budgetVars, markerVars>>

\* <-throttle returns only when a tick waits
pushMessageSendOnTick ==
    /\ tickBuf = 1
    /\ pushMessageSend

\* a producer's send on the channel completes
Arrive ==
    /\ ChanSend(Line("header", "", 0, "", <<CheckinApiLimit>>))
    /\ UNCHANGED <<envVars, ircVars, fetchVars, pollVars, loopVars,
                   consumerVars, timeVars, pureVars,
                   budgetVars, markerVars>>

\* pushMessage has just been started by untappdLoop
InitThrottle ==
    /\ upstream = [u \in SeqToSet(Users) |-> 0]
    /\ avail = upstream
    /\ inclusive = FALSE
    /\ joins = 1 /\ onceDone = TRUE /\ loops = 1 /\ consumers = 1
    /\ pc = "backfill" /\ uidx = 1
    /\ userCheckins = EmptyHistories
    /\ allCheckins = <<>> /\ maxId = MaxInt32 /\ attempt = 0
    /\ rest = <<>> /\ pending = <<>>
    /\ polled = [u \in SeqToSet(Users) |-> {}] /\ pollMark = 0 /\ again = FALSE
    /\ okAfter = -1 /\ sinceOk = 0
    /\ cs = <<>> /\ cpc = "recv" /\ message = EmptyString /\ tickBuf = 0
    /\ backfilled = EmptyHistories
    /\ backfillEnd = [u \in SeqToSet(Users) |-> ""]
    /\ lastReq = NoReq /\ delays = <<>>
    /\ enqueued = <<>> /\ sent = <<>>
    /\ now = 0 /\ lastSendAt = -1 /\ lastGap = -1
    /\ numUsers = Len(Users) /\ pollInterval = 0 /\ calls = 0 /\ minutes = 0
    /\ lastCheckinTimes = <<>> /\ batch = <<>>
    /\ seen = [u \in SeqToSet(Users) |-> [polls |-> 0, latest |-> 0, earlier |-> 0]]
    /\ NoCall

NextThrottle ==
    \/ Arrive
    \/ pushMessageRecv
    \/ pushMessageSendOnTick
    \/ Advance

SpecThrottle == InitThrottle /\ [][NextThrottle]_vars

(***************************************************************************)
(* isCheckinNew on its own: every history of up to MaxLen check-ins and    *)
(* every candidate, among them check-ins that share an identifier with     *)
(* another but differ from it (re-reported with another rating and time).  *)
(***************************************************************************)
Rereported(c) == [c EXCEPT !.UserRating = 6 - c.UserRating,
                           !.Created = c.Created + 5]

Candidates == AllEvents \cup {Rereported(c) : c \in AllEvents}

Histories == UNION {[1..n -> AllEvents] : n \in 0..MaxLen}

InitFilter ==
    /\ upstream = [u \in SeqToSet(Users) |-> 0]
    /\ avail = upstream
    /\ inclusive = FALSE
    /\ ProgramInit
    /\ call \in [checkin : Candidates, checkins : Histories]
    /\ ret = <<>>

\* isCheckinNew(checkin, checkins) is called, once and then once more
CallIsCheckinNew ==
    /\ Len(ret) < 2
    /\ ret' = Append(ret, isCheckinNew(call.checkin, call.checkins))
    /\ UNCHANGED <<envVars, ircVars, fetchVars, pollVars, loopVars, chanVars,
                   consumerVars, timeVars, call,
                   budgetVars, markerVars>>

SpecFilter == InitFilter /\ [][CallIsCheckinNew]_vars

(***************************************************************************)
(* Properties.                                                             *)
(***************************************************************************)
\* the line pushMessage has taken off the channel and not yet sent
InFlight == IF cpc = "throttle" THEN <<message>> ELSE <<>>

\* no more lines than this are ever put on the channel in a burst
MaxLines == 1 + Len(Users) + Len(Users) * BurstEv * (3 + Len(Users))

FifoConserved == enqueued = sent \o InFlight \o cs

C2_SendsTwoSecondsApart == lastGap = -1 \/ lastGap >= ThrottleSeconds

\* the producer side is blocked in a send on the full channel
LoopBlocked == Len(cs) = ChanCap /\ pending # <<>>

\* C3: the channel never holds more than 30 lines; while it holds 30 and
\* untappdLoop has a line to send, untappdLoop does not move (it moves again
\* only after pushMessage has taken a line); and no line is discarded: a line
\* leaves the pending lines of untappdLoop only by being put on the channel,
\* and the lines put on the channel are all sent, in hand or waiting.
C3_BoundedBlockingChannel ==
    /\ [](Len(cs) <= ChanCap /\ FifoConserved)
    /\ [][LoopBlocked => UNCHANGED <<pc, uidx, pending, rest, userCheckins, enqueued>>]_vars
    /\ [][(pending # <<>> /\ pending' # pending)
            => enqueued' = Append(enqueued, Head(pending))]_vars

C3_Witness ==
    /\ LoopBlocked
    /\ pc = "send"
    /\ Len(enqueued) = Len(sent) + 1 + ChanCap

KnownID(checkin, checkins) ==
    \E j \in 1..Len(checkins) : checkins[j].ID = checkin.ID

\* C4: isCheckinNew returns false if and only if some check-in of the history
\* has the identifier of the candidate, the same on every call, whatever the
\* other fields of the candidate (its creation time among them) are.
C4_NewIffIdAbsent ==
    \A i \in 1..Len(ret) : ret[i] = ~KnownID(call.checkin, call.checkins)

\* a re-reported check-in (known identifier, other time and rating) is not
\* new, on both calls
C4_Witness ==
    /\ Len(ret) = 2
    /\ ret[1] = FALSE
    /\ \A j \in 1..Len(call.checkins) : call.checkins[j] # call.checkin
    /\ Len(call.checkins) = MaxLen

Occurrences(id, history) ==
    Cardinality({i \in 1..Len(history) : history[i].ID = id})

\* the alerts (general lines) for check-in `id` in the lines `ls`
Alerts(id, ls) ==
    Cardinality({i \in 1..Len(ls) : ls[i].kind = "general" /\ ls[i].id = id})

\* C5: an identifier that a poll returned and the backfilled history did not
\* hold is in the user's history at most once, with one alert (put on the
\* channel, or about to be) for each time it is in the history; and whenever
\* untappdLoop is between two polls it is in the history exactly once and
\* exactly one alert for it has been put on the channel.
C5_NewAppendedAndAlertedOnce ==
    \A u \in SeqToSet(Users) : \A id \in polled[u] :
        /\ Occurrences(id, userCheckins[u]) <= 1
        /\ Alerts(id, enqueued) + Alerts(id, pending)
              = Occurrences(id, userCheckins[u])
        /\ pc \in {"poll", "sleep"} =>
              /\ Occurrences(id, userCheckins[u]) = 1
              /\ Alerts(id, enqueued) = 1
        /\ Occurrences(id, backfilled[u]) = 0

\* two check-ins of one user found by polls, the backfilled history of two
\* left alone
C5_Witness ==
    /\ pc = "sleep"
    /\ \E u \in SeqToSet(Users) :
          /\ Len(backfilled[u]) = MaxHist
          /\ polled[u] # {}
          /\ Len(userCheckins[u]) = MaxHist + Cardinality(polled[u])
    /\ \E i \in 1..Len(sent) : sent[i].kind = "general"

\* C6: no two check-ins in one user's history have the same identifier.
C6_HistoryIdsUnique ==
    \A u \in SeqToSet(Users) :
        \A i, j \in 1..Len(userCheckins[u]) :
            i # j => userCheckins[u][i].ID # userCheckins[u][j].ID

\* C7: however many times RPL_NAMREPLY is delivered, untappdLoop and
\* pushMessage are started once: never more than one of each, untappdLoop
\* started as soon as one reply has been delivered, and pushMessage started
\* once untappdLoop has run its first step.
C7_StartedOnce ==
    /\ loops <= 1
    /\ consumers <= 1
    /\ joins >= 1 => loops = 1
    /\ pc \notin {"idle", "start"} => consumers = 1
    /\ loops = 0 => pc = "idle"

C7_Witness ==
    /\ joins = MaxJoins
    /\ joins >= 2
    /\ loops = 1
    /\ consumers = 1
    /\ pc = "sleep"

CallCanSucceed ==
    /\ pc \in {"backfill", "poll"}
    /\ ENABLED (getAllCheckinsPage \/ getCheckinsOk)

C10_PageLimitAndCap ==
    /\ lastReq.limit <= min(50, 300 - lastReq.have)
    /\ \A u \in SeqToSet(Users) : Len(backfilled[u]) <= 300
    /\ Len(allCheckins) < 300

\* a request for less than a full page, and a backfill that ended at the cap
C10_Witness ==
    /\ lastReq.have > 300 - 50
    /\ lastReq.limit = 300 - lastReq.have
    /\ \E u \in SeqToSet(Users) : Len(backfilled[u]) = 300

\* C11: a live poll that fails skips its user for the cycle: the failing step
\* goes on to the next user of the roster, or to the sleep after the last
\* one, and the user is not asked for again before that sleep.
C11_FailedPollSkipsUser ==
    [][(pc = "poll" /\ attempt' > attempt)
         => \/ uidx < Len(Users) /\ uidx' = uidx + 1 /\ pc' = "poll"
            \/ uidx = Len(Users) /\ pc' = "sleep"]_vars

\* a poll of the first user has failed and the same user is asked for again
C11_Witness ==
    /\ pc = "poll"
    /\ uidx = 1
    /\ attempt > 0

(***************************************************************************)
(* The polling budget: untappdLoop from the computation of pollInterval    *)
(* on, for rosters of 0 to MaxRoster users and of DeepRoster users.  Only  *)
(* the calls are counted, so a user is its index in the roster; no call    *)
(* fails (a failed call is not a successful one and is followed by a sleep *)
(* of a minute or more before the retry), and a call that succeeds takes   *)
(* no time to speak of.                                                    *)
(***************************************************************************)
\* roster sizes
MaxRoster == 13

\* one large roster
DeepRoster == 195

\* poll cycles followed
MaxCycles == 8

\* the empty roster included
RosterSizes == (0..MaxRoster) \cup {DeepRoster}

InitBudget ==
    /\ upstream = [u \in SeqToSet(Users) |-> 0]
    /\ avail = upstream
    /\ inclusive = FALSE
    /\ joins = 1 /\ onceDone = TRUE /\ loops = 1 /\ consumers = 0
    /\ pc = "start" /\ uidx = 1
    /\ userCheckins = EmptyHistories
    /\ allCheckins = <<>> /\ maxId = MaxInt32 /\ attempt = 0
    /\ rest = <<>> /\ pending = <<>>
    /\ polled = [u \in SeqToSet(Users) |-> {}] /\ pollMark = 0 /\ again = FALSE
    /\ okAfter = -1 /\ sinceOk = 0
    /\ cs = <<>> /\ cpc = "off" /\ message = EmptyString /\ tickBuf = 0
    /\ backfilled = EmptyHistories
    /\ backfillEnd = [u \in SeqToSet(Users) |-> ""]
    /\ lastReq = NoReq /\ delays = <<>>
    /\ enqueued = <<>> /\ sent = <<>>
    /\ now = 0 /\ lastSendAt = -1 /\ lastGap = -1
    /\ numUsers \in RosterSizes
    /\ pollInterval = 0 /\ calls = 0 /\ minutes = 0
    /\ lastCheckinTimes = <<>> /\ batch = <<>>
    /\ seen = [u \in SeqToSet(Users) |-> [polls |-> 0, latest |-> 0, earlier |-> 0]]
    /\ NoCall

\* pollInterval := calculatePollInterval(len(config.Users)), and on to the
\* first cycle
SetPollInterval ==
    /\ pc = "start"
    /\ pollInterval' = calculatePollInterval(numUsers)
    /\ pc' = "poll"
    /\ UNCHANGED <<envVars, ircVars, fetchVars, pollVars, uidx, userCheckins,
                   rest, pending, chanVars, consumerVars, timeVars, pureVars,
                   numUsers, calls, minutes, markerVars>>

\* getCheckins returns for the user at hand and its check-ins are ranged over
PollOne ==
    /\ pc = "poll"
    /\ calls < MaxCycles * numUsers
    /\ calls' = calls + 1
    /\ IF uidx < numUsers
       THEN uidx' = uidx + 1 /\ pc' = "poll"
       ELSE uidx' = 1 /\ pc' = "sleep"
    /\ UNCHANGED <<envVars, ircVars, fetchVars, pollVars, userCheckins,
                   rest, pending, chanVars, consumerVars, timeVars, pureVars,
                   numUsers, pollInterval, minutes, markerVars>>

\* time.Sleep(time.Duration(pollInterval) * time.Minute)
SleepInterval ==
    /\ pc = "sleep"
    /\ minutes' = minutes + pollInterval
    /\ pc' = "poll"
    /\ UNCHANGED <<envVars, ircVars, fetchVars, pollVars, uidx, userCheckins,
                   rest, pending, chanVars, consumerVars, timeVars, pureVars,
                   numUsers, pollInterval, calls, markerVars>>

\* for _, user := range config.Users, with no user in the roster: the cycle
\* is over at once
EmptyCycle ==
    /\ pc = "poll"
    /\ numUsers = 0
    /\ pc' = "sleep"
    /\ UNCHANGED <<envVars, ircVars, fetchVars, pollVars, uidx, userCheckins,
                   rest, pending, chanVars, consumerVars, timeVars, pureVars,
                   budgetVars, markerVars>>

NextBudget ==
    \/ SetPollInterval
    \/ PollOne
    \/ EmptyCycle
    \/ SleepInterval

SpecBudget == InitBudget /\ [][NextBudget]_vars

\* the smallest integer not less than 0.6 * n
CeilOfSixTenths(n) == (6 * n + 9) \div 10

\* C12: for every roster size n >= 1, calculatePollInterval(n) is
\* ceil(60 / (100 / n)), the smallest integer not less than 0.6 * n.
C12_IntervalIsCeiling ==
    pc # "start" => pollInterval = CeilOfSixTenths(numUsers)

\* the interval of the large roster has been computed
C12_Witness ==
    /\ pc # "start"
    /\ numUsers = DeepRoster

\* C13, as stated: a roster of 3 users is polled every 20 minutes and a
\* roster of 7 users every 9 minutes.
C13_ThreeTwentySevenNine ==
    pc # "start" =>
       /\ numUsers = 3 => pollInterval = 20
       /\ numUsers = 7 => pollInterval = 9

\* C13, amended: a roster of 3 users is polled every 2 minutes (ceil(1.8))
\* and a roster of 7 users every 5 minutes (ceil(4.2)).
C13_ThreeTwoSevenFive ==
    pc # "start" =>
       /\ numUsers = 3 => pollInterval = 2
       /\ numUsers = 7 => pollInterval = 5

\* the roster of 7 users sleeps for its interval
C13_Witness ==
    /\ numUsers = 7
    /\ pc = "sleep"
    /\ pollInterval = 5

\* successful calls in the 60 minutes that end now: those of the cycle at
\* hand and those of the cycles that began less than 60 minutes ago
CallsInLastHour ==
    LET thisCycle == IF pc = "sleep" THEN numUsers
                     ELSE IF pc = "poll" THEN uidx - 1
                     ELSE 0
        earlier == {j \in 1..MaxCycles :
                       j * pollInterval < 60 /\ j * pollInterval <= minutes}
    IN thisCycle + numUsers * Cardinality(earlier)

\* C14: steady-state polling stays within the quota: for every roster size
\* n * 60 <= 100 * calculatePollInterval(n), and no 60 minutes hold more
\* than 100 successful poll calls.
C14_AtMostHundredInAnyHour ==
    pc # "start" =>
       /\ numUsers * 60 <= 100 * pollInterval
       /\ CallsInLastHour <= 100

\* What holds of the budget: n * 60 <= 100 * calculatePollInterval(n); every
\* cycle makes one call per user and is followed by a sleep of pollInterval
\* minutes, so at the start of every cycle the calls made so far are
\* numUsers per pollInterval minutes slept, at most 100 per 60 minutes.
C14_LongRunRateWithinQuota ==
    /\ pc # "start" => numUsers * 60 <= 100 * pollInterval
    /\ pc = "poll" => (calls - (uidx - 1)) * pollInterval = numUsers * minutes
    /\ pc = "sleep" => (calls - numUsers) * pollInterval = numUsers * minutes
    /\ (pc = "poll" /\ uidx = 1) => calls * 60 <= 100 * minutes

\* 13 users, polled every 8 minutes: 104 calls, the last of them 56 minutes
\* after the first
C14_Witness ==
    /\ numUsers = 13
    /\ pollInterval = 8
    /\ pc = "sleep"
    /\ calls = 104
    /\ minutes = 56
    /\ CallsInLastHour = 104

\* C15: no startup statistics line is put on the channel for a user whose
\* backfilled history is empty, so no line on the channel carries an average
\* that is the result of a division by zero.
C15_NoStatsLineForEmptyHistory ==
    \A i \in 1..Len(enqueued) :
       enqueued[i].kind = "stats" =>
          /\ backfilled[enqueued[i].user] # <<>>
          /\ ~IsNaN(enqueued[i].info[2])

\* the statistics line of a user without check-ins has been handed to the
\* transport
C15_Witness ==
    \E i \in 1..Len(sent) :
       /\ sent[i].kind = "stats"
       /\ backfilled[sent[i].user] = <<>>
       /\ sent[i].info = <<0, FloatDiv(0, 0)>>

\* the check-in a line is about
EventOf(l) == CHOOSE c \in AllEvents : c.ID = l.id

\* C16: for every new check-in sendCheckinToIrc puts on the channel, before
\* any cross-user line, the general, the style and the rating line, in that
\* order, followed by the venue line exactly when the check-in has a venue;
\* each line is a send of its own and no empty line is sent.
C16_AlertLinesBeforeCrossLines ==
    /\ [](\A i \in 1..Len(enqueued) :
            LET l == enqueued[i]
                before == enqueued[i - 1]
                follows(kinds) == /\ i > 1
                                  /\ before.kind \in kinds
                                  /\ before.id = l.id
                                  /\ before.user = l.user
            IN /\ l.kind \in {"header", "stats", "general", "style", "rating",
                              "venue", "cross"}
               /\ l.kind = "general" =>
                     /\ l.user = EventOf(l).UserName
                     /\ i > 1 => before.kind # "general"
                     /\ i > 1 /\ before.kind \in {"style", "rating"} => before.id # l.id
               /\ l.kind = "style" => follows({"general"})
               /\ l.kind = "rating" => follows({"style"})
               /\ l.kind = "venue" => follows({"rating"}) /\ EventOf(l).Venue
               /\ l.kind = "cross" =>
                     /\ follows({"rating", "venue", "cross"})
                     /\ before.kind = "rating" => ~EventOf(l).Venue
               /\ (l.kind = "rating" /\ i < Len(enqueued) /\ EventOf(l).Venue)
                     => enqueued[i + 1].kind = "venue"
               /\ (l.kind \in {"general", "style"} /\ i = Len(enqueued))
                     => pc = "send" /\ pending # <<>>
               /\ (l.kind = "rating" /\ i = Len(enqueued) /\ EventOf(l).Venue)
                     => pc = "send" /\ pending # <<>>)
    /\ [][Len(enqueued') <= Len(enqueued) + 1]_vars

\* an alert of four lines and an alert of three, each followed by a
\* cross-user line
C16_Witness ==
    /\ \E i \in 1..(Len(enqueued) - 4) :
          /\ enqueued[i].kind = "general"
          /\ enqueued[i + 1].kind = "style"
          /\ enqueued[i + 2].kind = "rating"
          /\ enqueued[i + 3].kind = "venue"
          /\ enqueued[i + 4].kind = "cross"
    /\ \E j \in 1..(Len(enqueued) - 3) :
          /\ enqueued[j].kind = "general"
          /\ enqueued[j + 1].kind = "style"
          /\ enqueued[j + 2].kind = "rating"
          /\ enqueued[j + 3].kind = "cross"

(***************************************************************************)
(* getStats on its own: every history of up to MaxLen check-ins, of either *)
(* user, and every item, one of them an item nobody has checked in.        *)
(***************************************************************************)
Items == {c.BeerID : c \in AllEvents} \cup {0}

InitStats ==
    /\ upstream = [u \in SeqToSet(Users) |-> 0]
    /\ avail = upstream
    /\ inclusive = FALSE
    /\ ProgramInit
    /\ call \in [checkins : Histories, beerID : Items]
    /\ ret = <<>>

\* min, max, avg, count, lastCheckin := getStats(checkins, checkin.Beer)
CallGetStats ==
    /\ ret = <<>>
    /\ ret' = <<getStats(call.checkins, call.beerID)>>
    /\ UNCHANGED <<envVars, ircVars, fetchVars, pollVars, loopVars, chanVars,
                   consumerVars, timeVars, call, budgetVars, markerVars>>

SpecStats == InitStats /\ [][CallGetStats]_vars

\* the places of the history that hold a check-in of the item asked for
Matching == {i \in 1..Len(call.checkins) : call.checkins[i].BeerID = call.beerID}

\* the sum of the ratings at the places S, rating by rating
RatingSum(S) ==
    LET times(r) == Cardinality({i \in S : call.checkins[i].UserRating = r})
    IN times(1) + 2 * times(2) + 3 * times(3) + 4 * times(4) + 5 * times(5)

\* C17: getStats returns the number of check-ins of the item in the history
\* and, when there is one, the smallest and the largest of their ratings,
\* their sum divided by their number, and the one of them with the greatest
\* identifier; when there is none the most recent check-in is nil.
C17_StatsOfMatchingCheckins ==
    ret # <<>> =>
       LET r == ret[1]
           ratings == {call.checkins[i].UserRating : i \in Matching}
       IN /\ r.count = Cardinality(Matching)
          /\ Matching # {} =>
                /\ r.min \in ratings /\ \A x \in ratings : r.min <= x
                /\ r.max \in ratings /\ \A x \in ratings : r.max >= x
                /\ r.avg = FloatDiv(RatingSum(Matching), Cardinality(Matching))
                /\ \E i \in Matching : r.lastCheckin = call.checkins[i]
                /\ \A i \in Matching : call.checkins[i].ID <= r.lastCheckin.ID
          /\ Matching = {} => r.lastCheckin = NoCheckin

\* three check-ins of the item with different ratings, the one with the
\* greatest identifier first in the history
C17_Witness ==
    /\ ret # <<>>
    /\ ret[1].count = MaxLen
    /\ ret[1].min < ret[1].max
    /\ ret[1].lastCheckin = call.checkins[1]
    /\ \A i \in 2..MaxLen : call.checkins[i].ID < call.checkins[1].ID

(***************************************************************************)
(* sendCheckinToIrc on its own: every check-in, every map of histories of  *)
(* up to MaxHist check-ins of the user's own, and every order of the range *)
(* over the map.                                                           *)
(***************************************************************************)
OwnHistories(u) ==
    UNION {[1..n -> UserEvents(u, MaxHist + MaxNew)] : n \in 0..MaxHist}

InitSend ==
    /\ upstream = [u \in SeqToSet(Users) |-> 0]
    /\ avail = upstream
    /\ inclusive = FALSE
    /\ ProgramInit
    /\ \E ucs \in [SeqToSet(Users) -> UNION {OwnHistories(u) : u \in SeqToSet(Users)}] :
          /\ \A u \in SeqToSet(Users) : ucs[u] \in OwnHistories(u)
          /\ call \in [checkin : AllEvents, ucs : {ucs}, order : MapOrders]
    /\ ret = <<>>

\* sendCheckinToIrc(c, ircMessages, userCheckins)
CallSendCheckinToIrc ==
    /\ ret = <<>>
    /\ ret' = <<sendCheckinToIrc(call.checkin, call.ucs, call.order)>>
    /\ UNCHANGED <<envVars, ircVars, fetchVars, pollVars, loopVars, chanVars,
                   consumerVars, timeVars, call, budgetVars, markerVars>>

SpecSend == InitSend /\ [][CallSendCheckinToIrc]_vars

\* the check-ins of the announced item in the history of u
MatchCount(u) ==
    Cardinality({i \in 1..Len(call.ucs[u]) :
                    call.ucs[u][i].BeerID = call.checkin.BeerID})

\* C18: sendCheckinToIrc sends exactly one cross-user line for each tracked
\* user other than the owner of the check-in whose history holds a check-in
\* of the same item, none for the owner and none for a user without such a
\* check-in; the [min-max] mean #count summary is part of the line iff the
\* user has more than one check-in of the item.
C18_OneCrossLinePerOtherUser ==
    ret # <<>> =>
       LET lines == ret[1]
           about(u) == {i \in 1..Len(lines) :
                           lines[i].kind = "cross" /\ lines[i].about = u}
       IN /\ \A u \in SeqToSet(Users) :
                Cardinality(about(u)) =
                   IF u # call.checkin.UserName /\ MatchCount(u) >= 1
                   THEN 1 ELSE 0
          /\ \A i \in 1..Len(lines) :
                lines[i].kind = "cross" =>
                   /\ lines[i].about \in SeqToSet(Users)
                   /\ lines[i].id = call.checkin.ID
                   /\ lines[i].info[3] # <<>> <=> MatchCount(lines[i].about) > 1
                   /\ lines[i].info[3] # <<>> =>
                         lines[i].info[3][4] = MatchCount(lines[i].about)

\* the owner and the other user both have the item twice: one line, about
\* the other user, with the summary
C18_Witness ==
    /\ ret # <<>>
    /\ MatchCount(call.checkin.UserName) = 2
    /\ \E i \in 1..Len(ret[1]) :
          /\ ret[1][i].kind = "cross"
          /\ ret[1][i].about # call.checkin.UserName
          /\ ret[1][i].info[3] # <<>>
          /\ ret[1][i].info[3][4] = 2

(***************************************************************************)
(* The revisions that keep a last-seen marker per user instead of the      *)
(* histories.  isCheckinNew of those revisions takes the map of markers.   *)
(***************************************************************************)
\* polls followed
MaxPolls == 3

\* variant: a check-in of a user without a marker is new
isCheckinNewFirstToo(checkin, markers) ==
    IF checkin.UserName \notin DOMAIN markers THEN TRUE
    ELSE checkin.Created > markers[checkin.UserName]

\* lastCheckinTime, ok := lastCheckinTimes[checkin.User.UserName]
\* if ok == false { return false }
\* return checkin.Created.After(lastCheckinTime)
isCheckinNewAfter(checkin, markers) ==
    IF checkin.UserName \notin DOMAIN markers THEN FALSE
    ELSE checkin.Created > markers[checkin.UserName]

\* lastCheckinTimes[c.User.UserName] = c.Created
KeepMarker(markers, c) ==
    [u \in DOMAIN markers \cup {c.UserName} |->
        IF u = c.UserName THEN c.Created ELSE markers[u]]

\* the marker is taken from the last check-in of the batch
KeepLast(markers, list) ==
    IF Len(list) > 0 THEN KeepMarker(markers, list[Len(list)]) ELSE markers

\* the marker is taken from the first check-in of the batch
KeepFirst(markers, list) ==
    IF Len(list) > 0 THEN KeepMarker(markers, list[1]) ELSE markers

\* the lines sendCheckinToIrc sends for the check-ins of list that are new,
\* in the order of list; the lines about the beers of the other users are
\* left out
RECURSIVE AlertLines(_, _)
AlertLines(list, markers) ==
    IF list = <<>> THEN <<>>
    ELSE (IF isCheckinNewAfter(Head(list), markers)
          THEN LET f == formatCheckin(Head(list))
               IN <<f[1], f[2], f[3]>>
                  \o (IF f[4] # EmptyString THEN <<f[4]>> ELSE <<>>)
          ELSE <<>>)
         \o AlertLines(Tail(list), markers)

\* what has been seen of a user once a further poll has returned `list`
SeenAfter(s, list) ==
    LET ts == {list[i].Created : i \in 1..Len(list)} \cup {s.latest}
    IN [polls   |-> s.polls + 1,
        latest  |-> CHOOSE t \in ts : \A x \in ts : x <= t,
        earlier |-> s.latest]

\* the loop over config.Users goes on to the next user or to the sleep
NextUser ==
    IF uidx < Len(Users)
    THEN uidx' = uidx + 1 /\ pc' = "poll"
    ELSE uidx' = 1 /\ pc' = "sleep"

\* untappdLoop has made the map of markers and enters its loop; every user
\* has MaxHist + MaxNew check-ins upstream
InitMarker ==
    /\ upstream = [u \in SeqToSet(Users) |-> 0]
    /\ avail = [u \in SeqToSet(Users) |-> MaxHist + MaxNew]
    /\ inclusive = FALSE
    /\ joins = 1 /\ onceDone = FALSE /\ loops = 1 /\ consumers = 1
    /\ pc = "poll" /\ uidx = 1
    /\ userCheckins = EmptyHistories
    /\ allCheckins = <<>> /\ maxId = MaxInt32 /\ attempt = 0
    /\ rest = <<>> /\ pending = <<>>
    /\ polled = [u \in SeqToSet(Users) |-> {}] /\ pollMark = 0 /\ again = FALSE
    /\ okAfter = -1 /\ sinceOk = 0
    /\ cs = <<>> /\ cpc = "recv" /\ message = EmptyString /\ tickBuf = 0
    /\ backfilled = EmptyHistories
    /\ backfillEnd = [u \in SeqToSet(Users) |-> ""]
    /\ lastReq = NoReq /\ delays = <<>>
    /\ enqueued = <<>> /\ sent = <<>>
    /\ now = 0 /\ lastSendAt = -1 /\ lastGap = -1
    /\ numUsers = Len(Users) /\ pollInterval = 0 /\ calls = 0 /\ minutes = 0
    /\ lastCheckinTimes = <<>> /\ batch = <<>>
    /\ seen = [u \in SeqToSet(Users) |-> [polls |-> 0, latest |-> 0, earlier |-> 0]]
    /\ NoCall

\* client.User.Checkins fails: log.Println(err); break
CheckinsFailBreak ==
    /\ pc = "poll"
    /\ pc' = "sleep"
    /\ uidx' = 1
    /\ UNCHANGED <<envVars, ircVars, fetchVars, pollVars, userCheckins, rest,
                   pending, chanVars, consumerVars, timeVars, pureVars,
                   budgetVars, markerVars>>

\* client.User.Checkins returns `list`: it is sorted and ranged over, up to
\* the first send on the channel or, when nothing is new, through the update
\* of the marker to the next user.  call and ret keep what isCheckinNew was
\* asked and answered.
CheckinsOkSorted ==
    /\ pc = "poll"
    /\ calls < MaxPolls
    /\ calls' = calls + 1
    /\ \E list \in RecentLists(Users[uidx]) :
         \E sorted \in {SortByCheckinTime(list)} :
            /\ batch' = sorted
            /\ seen' = [seen EXCEPT ![Users[uidx]] = SeenAfter(@, list)]
            /\ call' = [checkins |-> sorted, lastCheckinTimes |-> lastCheckinTimes]
            /\ ret' = [i \in 1..Len(sorted) |->
                         isCheckinNewAfter(sorted[i], lastCheckinTimes)]
            /\ pending' = AlertLines(sorted, lastCheckinTimes)
            /\ IF AlertLines(sorted, lastCheckinTimes) = <<>>
               THEN /\ lastCheckinTimes' = KeepLast(lastCheckinTimes, sorted)
                    /\ NextUser
               ELSE /\ pc' = "send"
                    /\ UNCHANGED <<uidx, lastCheckinTimes>>
    /\ UNCHANGED <<envVars, ircVars, fetchVars, pollVars, userCheckins, rest,
                   chanVars, consumerVars, timeVars, numUsers, pollInterval,
                   minutes>>

\* the next line of the batch is sent on the channel; after the last one the
\* marker is updated and the loop goes on
EnqueueThenKeepLast ==
    /\ pc = "send"
    /\ pending # <<>>
    /\ ChanSend(Head(pending))
    /\ pending' = Tail(pending)
    /\ IF Tail(pending) = <<>>
       THEN /\ lastCheckinTimes' = KeepLast(lastCheckinTimes, batch)
            /\ NextUser
       ELSE UNCHANGED <<pc, uidx, lastCheckinTimes>>
    /\ UNCHANGED <<envVars, ircVars, fetchVars, pollVars, userCheckins, rest,
                   consumerVars, timeVars, pureVars, budgetVars, batch, seen>>

\* pushMessage only takes lines off the channel and is left out
NextMarker ==
    \/ CheckinsFailBreak
    \/ CheckinsOkSorted
    \/ EnqueueThenKeepLast
    \/ Sleep

SpecMarker == InitMarker /\ [][NextMarker]_vars

\* C19: isCheckinNew answers false for a check-in of a user without a
\* marker, and otherwise true iff the check-in was created strictly after
\* the marker of its user; so nothing is announced on the first poll of a
\* user that is seen.
C19_NewIffAfterMarker ==
    /\ [](\A i \in 1..Len(ret) :
            LET c == call.checkins[i]
                m == call.lastCheckinTimes
            IN /\ c.UserName \notin DOMAIN m => ret[i] = FALSE
               /\ c.UserName \in DOMAIN m => (ret[i] <=> c.Created > m[c.UserName]))
    /\ [][(pc = "poll" /\ calls' = calls + 1
             /\ Users[uidx] \notin DOMAIN lastCheckinTimes)
            => pending' = <<>> /\ enqueued' = enqueued /\ pc' # "send"]_vars
    /\ [][enqueued' # enqueued
            => /\ enqueued' = Append(enqueued, Head(pending))
               /\ \E i \in 1..Len(ret) :
                     /\ ret[i]
                     /\ call.checkins[i].ID = Head(pending).id]_vars

\* a poll of a user with a marker has returned a check-in created at the
\* marker's time and one created after it
C19_Witness ==
    /\ Len(ret) = 2
    /\ call.checkins[1].UserName \in DOMAIN call.lastCheckinTimes
    /\ call.checkins[1].Created = call.lastCheckinTimes[call.checkins[1].UserName]
    /\ ret = <<FALSE, TRUE>>
    /\ pc = "send"

\* In the revision that leaves the loop over the users on an error, the
\* users after the failed one are polled in the same cycle all the same:
\* the loop goes to sleep from the last user only.
C11_BreakPollsTheOthers ==
    [][(pc = "poll" /\ pc' = "sleep") => uidx = Len(Users)]_vars

(***************************************************************************)
(* The earliest marker revision: no sort, the marker is the first check-in *)
(* of the batch, alerts go straight to the transport as one line each, and *)
(* an error ends the process.                                              *)
(***************************************************************************)
\* formatCheckin of that revision: one line
formatCheckinOneLine(checkin) ==
    Line("alert", checkin.UserName, checkin.ID, "",
         <<checkin.BeerID, checkin.UserRating>>)

\* client.User.Checkins fails: log.Fatal(err)
CheckinsFatal ==
    /\ pc = "poll"
    /\ pc' = "exit"
    /\ UNCHANGED <<envVars, ircVars, fetchVars, pollVars, uidx, userCheckins,
                   rest, pending, chanVars, consumerVars, timeVars, pureVars,
                   budgetVars, markerVars>>

\* client.User.Checkins returns `list`: it is ranged over as it came, the
\* new check-ins are sent, and the marker is updated
CheckinsOkUnsorted ==
    /\ pc = "poll"
    /\ calls < MaxPolls
    /\ calls' = calls + 1
    /\ \E list \in RecentLists(Users[uidx]) :
          /\ batch' = list
          /\ seen' = [seen EXCEPT ![Users[uidx]] = SeenAfter(@, list)]
          /\ call' = [checkins |-> list, lastCheckinTimes |-> lastCheckinTimes]
          /\ ret' = [i \in 1..Len(list) |->
                       isCheckinNewAfter(list[i], lastCheckinTimes)]
          /\ sent' = sent \o
                [i \in 1..Len(SelectSeq(list,
                        LAMBDA c : isCheckinNewAfter(c, lastCheckinTimes))) |->
                    formatCheckinOneLine(SelectSeq(list,
                        LAMBDA c : isCheckinNewAfter(c, lastCheckinTimes))[i])]
          /\ lastCheckinTimes' = KeepFirst(lastCheckinTimes, list)
    /\ NextUser
    /\ UNCHANGED <<envVars, ircVars, fetchVars, pollVars, userCheckins, rest,
                   pending, chanVars, cpc, message, tickBuf, lastSendAt,
                   lastGap, timeVars, numUsers, pollInterval, minutes>>

NextMarkerFirst ==
    \/ CheckinsFatal
    \/ CheckinsOkUnsorted
    \/ Sleep

SpecMarkerFirst == InitMarker /\ [][NextMarkerFirst]_vars

\* the latest creation time of the check-ins of a batch
MaxCreated(list) ==
    CHOOSE t \in {list[i].Created : i \in 1..Len(list)} :
       \A i \in 1..Len(list) : list[i].Created <= t

\* the step that ends the handling of a batch that was returned
BatchProcessed ==
    \/ pc = "poll" /\ calls' = calls + 1 /\ pc' # "send"
    \/ pc = "send" /\ pc' # "send"

\* C20: after a non-empty batch of a user has been processed the marker of
\* that user is the latest creation time in the batch, in whatever order
\* the upstream returned the batch.
C20_MarkerIsBatchMaximum ==
    [][(BatchProcessed /\ batch' # <<>>)
         => /\ Users[uidx] \in DOMAIN lastCheckinTimes'
            /\ lastCheckinTimes'[Users[uidx]] = MaxCreated(batch')]_vars

\* a batch of two check-ins, the older one first, has been processed
C20_Witness ==
    /\ Len(batch) = 2
    /\ batch[1].Created < batch[2].Created
    /\ batch[1].UserName \in DOMAIN lastCheckinTimes
    /\ pc = "poll"
    /\ uidx = 2

(***************************************************************************)
(* Check-ins made while the process runs: nothing is upstream at startup,  *)
(* the first user has made up to MaxHist + MaxNew check-ins by the time of *)
(* the polls and the others up to MaxNew, and a poll returns up to         *)
(* MaxBatch of them in any order.                                          *)
(***************************************************************************)
InitLate ==
    /\ upstream = [u \in SeqToSet(Users) |-> 0]
    /\ avail \in [SeqToSet(Users) -> 0..(MaxHist + MaxNew)]
    /\ \A i \in 2..Len(Users) : avail[Users[i]] <= MaxNew
    /\ inclusive = FALSE
    /\ ProgramInit
    /\ NoCall

SpecLate == InitLate /\ [][Next]_vars

\* the positions of the alerts (general lines) put on the channel since the
\* last poll returned
AlertsOfPoll ==
    {i \in (pollMark + 1)..Len(enqueued) : enqueued[i].kind = "general"}

\* C21: the alerts put on the channel for the check-ins of one poll are in
\* ascending order of creation time, in whatever order the poll returned
\* the check-ins.
C21_OldestFirstWithinPoll ==
    \A i, j \in AlertsOfPoll :
        i < j => EventOf(enqueued[i]).Created <= EventOf(enqueued[j]).Created

\* two check-ins of one poll have been announced, the one with the greater
\* identifier first because it was created earlier
C21_Witness ==
    \E i, j \in AlertsOfPoll :
        /\ i < j
        /\ enqueued[i].id > enqueued[j].id
        /\ EventOf(enqueued[i]).Created < EventOf(enqueued[j]).Created

(***************************************************************************)
(* The process with its goroutines running and the upstream answering in   *)
(* the end: a started goroutine takes its next step, a call that keeps     *)
(* being retried succeeds at some time, and the ticker keeps ticking.      *)
(* When the channel reply comes is left open.  Each user has up to MaxNew  *)
(* check-ins, made before the startup or after it.                         *)
(***************************************************************************)
InitFew ==
    /\ upstream \in [SeqToSet(Users) -> 0..MaxNew]
    /\ avail \in [SeqToSet(Users) -> 0..MaxNew]
    /\ \A u \in SeqToSet(Users) : upstream[u] <= avail[u]
    /\ inclusive = FALSE
    /\ ProgramInit
    /\ NoCall

SpecFew == InitFew /\ [][Next]_vars

FairLoop ==
    /\ SpecFew
    /\ WF_vars(untappdLoopStart)
    /\ WF_vars(getAllCheckinsPage)
    /\ WF_vars(Enqueue)
    /\ WF_vars(getCheckinsOk)
    /\ WF_vars(Sleep)
    /\ WF_vars(pushMessageRecv)
    /\ WF_vars(pushMessageSend)

\* where untappdLoop can be: not started, or at one of its steps
LoopPlaces == {"idle", "start", "backfill", "stats", "poll", "send", "sleep"}

\* C22: once untappdLoop has started no failed upstream call ends it or the
\* process: a failed call leaves the loop at the call it was making, for the
\* same user, the loop is never anywhere but at one of its steps, and from
\* wherever it is it gets to the sleep that ends a cycle over all users and
\* from there to the next poll, again and again.
C22_LoopNeverEnds ==
    /\ [](pc \in LoopPlaces)
    /\ [][attempt' > attempt
            => /\ pc \in {"backfill", "poll"}
               /\ UNCHANGED <<pc, uidx, userCheckins>>]_vars
    /\ (pc # "idle") ~> (pc = "sleep")
    /\ (pc = "sleep") ~> (pc = "poll" /\ uidx = 1)

\* the poll of the last user has failed MaxFails times in a row and is still
\* to be made, the first user's new check-in having gone out
C22_Witness ==
    /\ pc = "poll"
    /\ uidx = Len(Users)
    /\ attempt = MaxFails
    /\ polled[Users[1]] # {}
    /\ \E i \in 1..Len(sent) : sent[i].kind = "general"

\* C23: a check-in that the backfill of its user returned is never
\* announced, whatever the polls return afterwards: no alert for it is on
\* the channel or about to be put there, and it is in the history as often
\* as the backfill returned it.
C23_BackfilledNeverAnnounced ==
    \A u \in SeqToSet(Users) : \A id \in IDs(backfilled[u]) :
        /\ Alerts(id, enqueued) = 0
        /\ Alerts(id, pending) = 0
        /\ Occurrences(id, userCheckins[u]) = Occurrences(id, backfilled[u])

\* the last poll of the cycle returned a check-in of the backfilled history
\* of the last user, and has been dealt with
C23_Witness ==
    /\ pc = "sleep"
    /\ again
    /\ Len(backfilled[Users[Len(Users)]]) = MaxHist

\* C24: in getAllCheckins a page that comes resets the backoff: right after
\* it no failure is counted and no delay is remembered, and the delay slept
\* on at the next failure is the minimum delay of 60 seconds, the first of a
\* new series, however many failures came before that page.
C24_SuccessResetsBackoff ==
    /\ []((pc = "backfill" /\ okAfter >= 0 /\ sinceOk = 0)
            => attempt = 0 /\ delays = <<>>)
    /\ [][(pc = "backfill" /\ okAfter >= 0 /\ sinceOk = 0 /\ sinceOk' = 1)
            => /\ attempt' = 1
               /\ delays' = <<60>>]_vars

\* a page came after MaxFails failures in a row, and the request after it
\* has failed and is retried after 60 seconds
C24_Witness ==
    /\ pc = "backfill"
    /\ okAfter = MaxFails
    /\ sinceOk = 1
    /\ delays = <<60>>
    /\ allCheckins # <<>>

\* the startup is over: the backfill of every user has returned and the
\* header and one statistics line per user are on the channel, first of all
StartupDone ==
    /\ \A u \in SeqToSet(Users) : backfillEnd[u] # ""
    /\ Len(enqueued) >= 1 + Len(Users)
    /\ enqueued[1].kind = "header"
    /\ \A i \in 2..(1 + Len(Users)) : enqueued[i].kind = "stats"
    /\ {enqueued[i].user : i \in 2..(1 + Len(Users))} = SeqToSet(Users)

\* C25: the startup comes before the polling: untappdLoop is at a poll, at
\* the sends of an alert or at the sleep only when the startup is over, and
\* before that no poll has returned and no line other than the statistics
\* is on the channel or about to be put there.
C25_StartupBeforePolling ==
    /\ pc \in {"poll", "send", "sleep"} => StartupDone
    /\ ~StartupDone =>
          /\ \A u \in SeqToSet(Users) : polled[u] = {}
          /\ pollMark = 0 /\ ~again
          /\ \A i \in 1..Len(enqueued) : enqueued[i].kind \in {"header", "stats"}
          /\ \A i \in 1..Len(pending) : pending[i].kind \in {"header", "stats"}

\* the first alert is about to be put on the channel, right behind the
\* statistics
C25_Witness ==
    /\ pc = "send"
    /\ StartupDone
    /\ Len(enqueued) = 1 + Len(Users)
    /\ pending # <<>>
    /\ pending[1].kind = "general"
    /\ \E u \in SeqToSet(Users) : Len(backfilled[u]) = MaxHist

\* the history of u is in ascending order of creation time
SortedByTime(history) ==
    \A i, j \in 1..Len(history) :
        i < j => history[i].Created <= history[j].Created

\* the step with which the poll of the user at uidx is over: the range over
\* the check-ins has ended and the history has been sorted
PollCompletes ==
    /\ pc \in {"poll", "send"}
    /\ pc' \in {"poll", "sleep"}
    /\ pc' = "poll" => uidx' = uidx + 1

\* C26: when the poll of a user is over the history of that user is in
\* ascending order of creation time, and it holds every check-in it held
\* before, as often as before: no step of the program takes a check-in out
\* of a history.
C26_HistorySortedAndKept ==
    /\ [][PollCompletes => SortedByTime(userCheckins'[Users[uidx]])]_vars
    /\ [][\A u \in SeqToSet(Users) : \A c \in AllEvents :
              Cardinality({i \in 1..Len(userCheckins[u]) : userCheckins[u][i] = c})
                <= Cardinality({i \in 1..Len(userCheckins'[u]) :
                                    userCheckins'[u][i] = c})]_vars

\* the poll of the first user is over; the backfill had returned its two
\* check-ins newest first and the poll a third one, created between them
C26_Witness ==
    /\ pc = "poll"
    /\ uidx = 2
    /\ Len(backfilled[Users[1]]) = 2
    /\ backfilled[Users[1]][1].Created > backfilled[Users[1]][2].Created
    /\ Len(userCheckins[Users[1]]) = 3
    /\ SortedByTime(userCheckins[Users[1]])
    /\ userCheckins[Users[1]][2].ID \in polled[Users[1]]

\* C27: with an empty roster the interval untappdLoop sleeps between two
\* cycles is a minute or more.
C27_EmptyRosterSleeps ==
    (pc # "start" /\ numUsers = 0) => pollInterval >= 1

\* The same of the steps: with an empty roster every sleep between two
\* cycles takes a minute or more.
C27_EmptyRosterCyclesApart ==
    [][(numUsers = 0 /\ pc = "sleep" /\ pc' = "poll")
          => minutes' >= minutes + 1]_vars

\* the loop with an empty roster is through a cycle
C27_Witness ==
    /\ numUsers = 0
    /\ pc = "sleep"

\* the check-ins of the batch at hand that were created after every check-in
\* that earlier polls of the user returned
LaterThanEarlier ==
    {i \in 1..Len(batch) : batch[i].Created > seen[batch[i].UserName].earlier}

\* the batch at hand has been dealt with and was not returned by the first
\* poll of its user
LaterBatchDone ==
    /\ pc \in {"poll", "sleep"}
    /\ batch # <<>>
    /\ seen[batch[1].UserName].polls >= 2

\* C28: in the revision with the markers, every check-in that a poll other
\* than the first poll of its user returned and that was created after every
\* check-in the earlier polls of that user returned has been announced once
\* the batch is dealt with, also when the earlier polls returned nothing.
C28_LaterThanEarlierAnnounced ==
    LaterBatchDone =>
        \A i \in LaterThanEarlier : Alerts(batch[i].ID, enqueued) >= 1

\* What holds: the same, for a user of whom an earlier poll has returned a
\* check-in.
C28_LaterThanSeenAnnounced ==
    (LaterBatchDone /\ seen[batch[1].UserName].earlier > 0) =>
        \A i \in LaterThanEarlier : Alerts(batch[i].ID, enqueued) >= 1

\* the first poll of a user returned nothing and the second a check-in
C28_Witness ==
    /\ LaterBatchDone
    /\ seen[batch[1].UserName].earlier = 0
    /\ LaterThanEarlier # {}

\* a later poll of a user returned a check-in created after those of the
\* earlier polls, and it has been announced
C28_SeenWitness ==
    /\ LaterBatchDone
    /\ seen[batch[1].UserName].earlier > 0
    /\ LaterThanEarlier # {}

\* the positions in `ls` of the lines of the alert batch of check-in `id`
BatchLines(id, ls) == {i \in 1..Len(ls) : ls[i].id = id}

\* C29: the lines of one alert batch go to the transport one right after
\* the other: between two lines sent for one check-in no line of another
\* check-in and no statistics line is sent, and the same holds of the order
\* in which the lines are put on the channel.
C29_BatchLinesContiguous ==
    \A c \in AllEvents :
        /\ \A i, j \in BatchLines(c.ID, sent) : \A k \in i..j : sent[k].id = c.ID
        /\ \A i, j \in BatchLines(c.ID, enqueued) :
              \A k \in i..j : enqueued[k].id = c.ID

\* pushMessage has sent a batch that ends with a line about another user's
\* check-in of the beer, and the first line of the next batch right after it,
\* while further lines wait on the channel
C29_Witness ==
    /\ \E i \in 1..(Len(sent) - 1) :
          /\ sent[i].kind = "cross"
          /\ sent[i + 1].kind = "general"
          /\ sent[i + 1].id # sent[i].id
          /\ \E j \in 1..(i - 1) : sent[j].kind = "general" /\ sent[j].id # sent[i].id
    /\ cs # <<>>

====
